---- MODULE Spec2Model ----
(***************************************************************************)
(* devtoys_tg_bot: the JWT decoder of src/core/utils/jwt_.py and the       *)
(* stateful services of src/bot.                                           *)
(*                                                                         *)
(* decode_jwt is a pure function.  The specification draws one call        *)
(* (token, key, verify) from bounded sets in Init; the action DecodeJwt    *)
(* applies the function and records what the call returned or raised.      *)
(* RenderJwtSummary and HandleJwtCommand apply the front end of            *)
(* src/bot/routers/tools/jwt_tools.py to the same arguments.               *)
(*                                                                         *)
(* Python values are records tagged by the field t; bytes are records      *)
(* tagged by the field kind.  A raised exception is a record               *)
(* [ok |-> FALSE, exc, msg], a returned value [ok |-> TRUE, val].          *)
(***************************************************************************)
EXTENDS Integers, Sequences, FiniteSets, TLC

VARIABLES
    token,          \* argument: the compact token, a sequence of segments and dots
    key,            \* argument: None, bytes, str, dict or list
    verify,         \* argument: BOOLEAN
    pc,             \* "called" before decode_jwt ran, "done" after
    outcome,        \* what decode_jwt returned or raised
    key_material,   \* the local key_material of decode_jwt (line 272)
    summary,        \* what render_jwt_summary returned or raised
    \* StorageManager.save_upload (src/bot/storage.py)
    user_id,        \* argument of every call: text
    job_id,         \* argument of every call: text
    filename,       \* argument of every call: text
    files,          \* the files on disk: path -> content
    job_dirs,       \* the job directories on disk
    save_pc,        \* where each save_upload call stands
    save_target,    \* the local target_name of each call
    stored,         \* the StoredFile each call returned
    \* ToolExecutionHelper.execute (src/bot/routers/tools/base.py)
    fsm_state,      \* the state held by the FSMContext
    validator,      \* argument: how the validator behaves
    executor,       \* argument: how the executor behaves
    tool_pc,        \* where the call of execute stands
    tool_outcome,   \* what execute returned or raised
    \* MemoryRateLimiter (src/bot/rate_limit.py)
    clock,          \* time.monotonic(), in ticks
    limit,          \* argument of every hit
    window,         \* argument of every hit, in seconds
    _hits,          \* self._hits: key -> the timestamps of the bucket
    allowed_log,    \* key -> the timestamps of all allowed hits, in order
    status,         \* the RateLimitStatus of the last hit
    retry_due,      \* key -> the tick from which the last denials promise a retry
    last_hit,       \* the key and time of the last hit, and retry_due before it
    \* RecentHistoryStorage, for one user (src/bot/services/history.py)
    _redis_client,  \* "None" for the file backend, "client" for Redis
    history_store,  \* the list in the user's file or under the user's Redis key
    _locks,         \* the holder of the user's lock, 0 if it is free
    add_pc,         \* where each add_task call stands
    description,    \* the argument of each add_task call
    history,        \* the local history of each add_task call
    completed,      \* the descriptions of the add_task calls that returned, in order
    \* SessionMiddleware, for one event (src/bot/middlewares.py)
    has_user,       \* whether the event carries a user with an id
    session_store,  \* the payload the storage holds under the user's key
    _data,          \* SessionData._data
    _dirty,         \* SessionData._dirty
    mw_pc,          \* where the middleware stands
    modified,       \* whether a set, delete or clear went through the mapping
    writes,         \* the calls of storage.write
    raised,         \* whether the handler raised
    ops             \* the mapping operations of the handler so far

jwt_vars == <<token, key, verify, pc, outcome, key_material, summary>>
storage_vars == <<user_id, job_id, filename, files, job_dirs, save_pc, save_target, stored>>
tool_vars == <<fsm_state, validator, executor, tool_pc, tool_outcome>>
limiter_vars == <<clock, limit, window, _hits, allowed_log, status, retry_due, last_hit>>
history_vars == <<_redis_client, history_store, _locks, add_pc, description, history, completed>>
session_vars == <<has_user, session_store, _data, _dirty, mw_pc, modified, writes, raised, ops>>
vars == <<jwt_vars, storage_vars, tool_vars, limiter_vars, history_vars, session_vars>>
\* what an action of one component leaves alone
not_jwt == <<storage_vars, tool_vars, limiter_vars, history_vars, session_vars>>
not_storage == <<jwt_vars, tool_vars, limiter_vars, history_vars, session_vars>>
not_tool == <<jwt_vars, storage_vars, limiter_vars, history_vars, session_vars>>
not_limiter == <<jwt_vars, storage_vars, tool_vars, history_vars, session_vars>>
not_history == <<jwt_vars, storage_vars, tool_vars, limiter_vars, session_vars>>
not_session == <<jwt_vars, storage_vars, tool_vars, limiter_vars, history_vars>>

----------------------------------------------------------------------------
(* Bounds of the model *)

MaxParts == 4   \* most dot-separated parts of a token
MaxJwks == 2    \* most entries of a JWK set
MaxPad == 1     \* most whitespace characters on either side of a text key
MaxLen == 3     \* most characters of a user id, job id or file name
MaxCalls == 2   \* most concurrent calls of save_upload
MaxTime == 3    \* the last tick of the monotonic clock
MaxLimit == 2   \* the largest limit of the rate limiter
MaxWindow == 2  \* the largest window of the rate limiter, in seconds
MaxItems == 2   \* max_items of the history
MaxAdds == 3    \* most add_task calls on the history
MaxOps == 2     \* most mapping operations of a handler on its session

----------------------------------------------------------------------------
(* Python values *)

None == [t |-> "None"]
Absent == [t |-> "absent"]             \* the key is not in the dict
Str(s) == [t |-> "str", s |-> s]
PyInt == [t |-> "int"]
List == [t |-> "list"]                 \* a JSON array inside a header
Bool(b) == [t |-> "bool", b |-> b]

Ok(v) == [ok |-> TRUE, val |-> v]
Raise(exc, msg) == [ok |-> FALSE, exc |-> exc, msg |-> msg]
NotReached == Raise("-", "not reached")

\* dict.get(name): None when the key is missing
Get(d, name) == IF d[name] = Absent THEN None ELSE d[name]

\* isinstance(value, str)
IsStr(v) == v.t = "str"

\* hashable values can be looked up in a set or dict; list and dict cannot
Hashable(v) == v.t \notin {"list", "dict"}

\* the exception classes caught by "except ValueError"
ValueErrors == {"ValueError", "binascii.Error", "JSONDecodeError",
                "UnicodeDecodeError", "JWTDecodeError"}

----------------------------------------------------------------------------
(* Strings and bytes *)

\* A token segment: ascii says whether all characters are ASCII, n4 is the
\* number of its characters modulo 4, data the bytes it encodes.
Seg(ascii, n4, data) == [t |-> "seg", ascii |-> ascii, n4 |-> n4, data |-> data]
Dot == [t |-> "dot"]
EmptyBytes == [t |-> "bytes", kind |-> "empty"]
EmptySeg == Seg(TRUE, 0, EmptyBytes)   \* the empty string ""

\* the bytes of a JSON text, of a text and of anything else
JsonBytes(doc) == [t |-> "bytes", kind |-> "json", doc |-> doc]
Garbage == [t |-> "bytes", kind |-> "garbage"]
IntBytes(s) == [t |-> "bytes", kind |-> "bigint", s |-> s]   \* a big-endian integer
SecretBytes(s, lead, trail) ==
    [t |-> "bytes", kind |-> "secret", s |-> s, lead |-> lead, trail |-> trail]

\* A text key: lead and trail count the whitespace around body.
Text(lead, body, trail) == [t |-> "str", lead |-> lead, body |-> body, trail |-> trail]
Plain(s) == [form |-> "plain", s |-> s]
Pem(pub) == [form |-> "pem", pub |-> pub]     \* text starting with -----BEGIN
BadPem == [t |-> "badpem"]                    \* a body that is not a public key
JsonText(doc) == [form |-> "json", doc |-> doc]
BadJsonText == [form |-> "badjson"]

\* str.strip()
Strip(text) == [text EXCEPT !.lead = 0, !.trail = 0]

\* str.encode("utf-8") of a plain text
Encode(text) == SecretBytes(text.body.s, text.lead, text.trail)

\* str.split("."): the parts between the dots; an empty part is ""
RECURSIVE SplitFrom(_, _, _)
SplitFrom(chars, i, part) ==
    IF i > Len(chars) THEN <<part>>
    ELSE IF chars[i] = Dot THEN <<part>> \o SplitFrom(chars, i + 1, EmptySeg)
    ELSE SplitFrom(chars, i + 1, chars[i])
\* str.split(".", 2): at most three parts
Split_maxsplit(chars) ==
    LET parts == SplitFrom(chars, 1, EmptySeg)
    IN  IF Len(parts) > 3 THEN SubSeq(parts, 1, 3) ELSE parts
Split(chars) == SplitFrom(chars, 1, EmptySeg)

\* json.loads(bytes)
json_loads(data) ==
    IF data.kind = "json" THEN Ok(data.doc)
    ELSE Raise("JSONDecodeError", "Expecting value")

----------------------------------------------------------------------------
(* Keys and signatures of the crypto library *)

\* public key objects
RsaPub(n) == [t |-> "rsapub", modulus |-> n]
EcPub(curve, point) == [t |-> "ecpub", curve |-> curve, point |-> point]

\* hasattr(key_material, "verify"), hasattr(key_material, "curve")
HasVerify_any(km) == TRUE
HasVerify(km) == km.t \in {"rsapub", "ecpub"}
HasCurve(km) == km.t = "ecpub"

\* the text f"{header_raw}.{payload_raw}" as bytes
SigningInput(header_raw, payload_raw) == [h |-> header_raw, p |-> payload_raw]

\* hmac.new(secret, signing_input, hash).digest(): a MAC is determined by,
\* and determines, the secret, the message and the hash
Hmac(secret, input, hash) ==
    [t |-> "bytes", kind |-> "mac", hash |-> hash, secret |-> secret, input |-> input]

\* a signature made with the private key of n
RsaSig(scheme, hash, n, input) ==
    [t |-> "bytes", kind |-> "rsasig", scheme |-> scheme, hash |-> hash, signer |-> n, input |-> input]
\* an ECDSA signature by the private key of point, DER or raw (r || s) encoded
EcSig(enc, hash, point, input) ==
    [t |-> "bytes", kind |-> "ecsig", enc |-> enc, hash |-> hash, signer |-> point, input |-> input]

\* hmac.compare_digest
compare_digest(a, b) == a = b

\* the curve a point lies on
CurveOf(point) ==
    CASE point = "Q256" -> "secp256r1"
      [] point = "Q384" -> "secp384r1"
      [] OTHER -> "secp521r1"

----------------------------------------------------------------------------
(* src/core/utils/jwt_.py *)

_b64url_decode(segment) ==
    LET padding == (4 - segment.n4) % 4
    IN  IF ~segment.ascii
        THEN Raise("ValueError", "string argument should contain only ASCII characters")
        ELSE IF padding = 3     \* one character more than a multiple of 4
        THEN Raise("binascii.Error", "Invalid base64-encoded string")
        ELSE Ok(segment.data)

SUPPORTED_HMAC == [HS256 |-> "sha256", HS384 |-> "sha384", HS512 |-> "sha512"]
RSA_HASHES == [RS256 |-> "sha256", RS384 |-> "sha384", RS512 |-> "sha512"]
RSA_PSS_HASHES == [PS256 |-> "sha256", PS384 |-> "sha384", PS512 |-> "sha512"]
ECDSA_HASHES ==
    [ES256 |-> [curve |-> "secp256r1", hash |-> "sha256"],
     ES384 |-> [curve |-> "secp384r1", hash |-> "sha384"],
     ES512 |-> [curve |-> "secp521r1", hash |-> "sha512"]]

INSECURE_ALGORITHMS_lower == {"none"}
INSECURE_ALGORITHMS == {"none", "NONE"}

\* "algorithm in TABLE" for a hashable Python value
InTable(algorithm, names) == IsStr(algorithm) /\ algorithm.s \in names

_load_shared_secret(value) ==
    IF value.t = "bytes" THEN Ok(value)
    ELSE IF value.t = "str" THEN Ok(Encode(value))
    ELSE Raise("AttributeError", "object has no attribute 'encode'")

\* A JWK or JWK set as a dict; a missing key holds Absent.
Dict(keys, kty, kid, k, n, e, x, y, crv, alg) ==
    [t |-> "dict", keys |-> keys, kty |-> kty, kid |-> kid, k |-> k, n |-> n,
     e |-> e, x |-> x, y |-> y, crv |-> crv, alg |-> alg]
\* a list of JWKs
ListOf(items) == [t |-> "list", items |-> items]
\* a JWK parameter: a Base64URL string
Param(segment) == [t |-> "str", seg |-> segment]

\* int.from_bytes(_b64url_decode(raw), "big") for the parameters n, x, y
IntParam(raw) ==
    LET decoded == _b64url_decode(raw.seg)
    IN  IF ~decoded.ok THEN decoded ELSE Ok(decoded.val)

\* raise JWTDecodeError(f"Unsupported JWK key type: {kty}") (line 112)
UnsupportedKty_empty == Ok(EmptyBytes)
UnsupportedKty == Raise("JWTDecodeError", "Unsupported JWK key type")

_jwk_to_key(jwk) ==
    LET kty == Get(jwk, "kty")
    IN  IF kty = Str("oct") THEN
            LET k == Get(jwk, "k")
            IN  IF ~IsStr(k)
                THEN Raise("JWTDecodeError", "Octet JWK is missing the 'k' parameter")
                ELSE _b64url_decode(k.seg)
        ELSE IF kty = Str("RSA") THEN
            LET n_raw == Get(jwk, "n")
                e_raw == Get(jwk, "e")
            IN  IF ~IsStr(n_raw) \/ ~IsStr(e_raw)
                THEN Raise("JWTDecodeError", "RSA JWK is missing modulus or exponent")
                ELSE LET n == IntParam(n_raw)
                         e == IntParam(e_raw)
                     IN  IF ~n.ok THEN n
                         ELSE IF ~e.ok THEN e
                         ELSE Ok(RsaPub(n.val.s))
        ELSE IF kty = Str("EC") THEN
            LET x_raw == Get(jwk, "x")
                y_raw == Get(jwk, "y")
                curve_name == Get(jwk, "crv")
            IN  IF ~IsStr(x_raw) \/ ~IsStr(y_raw) \/ ~IsStr(curve_name)
                THEN Raise("JWTDecodeError", "EC JWK is missing parameters")
                ELSE
                LET jwk_alg == IF jwk.alg = Absent THEN Str("ES256") ELSE jwk.alg
                    curve0 == IF InTable(jwk_alg, DOMAIN ECDSA_HASHES)
                              THEN ECDSA_HASHES[jwk_alg.s].curve ELSE "None"
                    curve1 == IF curve0 # "None" THEN curve0
                              ELSE CASE curve_name = Str("P-256") -> "secp256r1"
                                     [] curve_name = Str("P-384") -> "secp384r1"
                                     [] curve_name = Str("P-521") -> "secp521r1"
                                     [] OTHER -> "None"
                    x == IntParam(x_raw)
                    y == IntParam(y_raw)
                IN  IF ~Hashable(jwk_alg)
                    THEN Raise("TypeError", "unhashable type")
                    ELSE IF curve1 = "None"
                    THEN Raise("JWTDecodeError", "Unsupported EC curve")
                    ELSE IF ~x.ok THEN x
                    ELSE IF ~y.ok THEN y
                    \* public_key() rejects a point that is not on the curve
                    ELSE IF CurveOf(x.val.s) # curve1
                    THEN Raise("ValueError", "Invalid EC key")
                    ELSE Ok(EcPub(curve1, x.val.s))
        ELSE UnsupportedKty

IsDict(v) == v.t = "dict"
IsList(v) == v.t = "list"

_load_keys_from_json(data) ==
    IF IsDict(data) THEN
        IF data.keys # Absent THEN
            LET items == data.keys
            IN  IF ~IsList(items)
                THEN Raise("JWTDecodeError", "JWKS 'keys' must be a list")
                ELSE Ok(SelectSeq(items.items, IsDict))
        ELSE Ok(<<data>>)
    ELSE IF IsList(data) THEN Ok(SelectSeq(data.items, IsDict))
    ELSE Ok(<<>>)

\* the first jwk of candidates with jwk.get("kid") == kid, or None
RECURSIVE FirstWithKid(_, _, _)
FirstWithKid(candidates, kid, i) ==
    IF i > Len(candidates) THEN None
    ELSE IF Get(candidates[i], "kid") = kid THEN candidates[i]
    ELSE FirstWithKid(candidates, kid, i + 1)

\* Variants of _select_key_from_jwks: falling back to the first key when no
\* kid matches, refusing a single key without kid, and taking the first key
\* of several without kid.
SelectWith(data, header, fallback, most, guess) ==
    LET kid == Get(header, "kid")
        loaded == _load_keys_from_json(data)
    IN  IF ~loaded.ok THEN loaded
        ELSE
        LET candidates == loaded.val
        IN  IF candidates = <<>>
            THEN Raise("JWTDecodeError", "JWKS does not contain any keys")
            ELSE IF kid # None THEN
                LET selected == FirstWithKid(candidates, kid, 1)
                IN  IF selected = None
                    THEN IF fallback THEN _jwk_to_key(candidates[1])
                         ELSE Raise("JWTDecodeError", "Key with kid not found in JWKS")
                    ELSE _jwk_to_key(selected)
            ELSE IF Len(candidates) > most /\ ~guess
                THEN Raise("JWTDecodeError", "JWKS contains multiple keys; specify 'kid'")
                ELSE _jwk_to_key(candidates[1])
_select_key_from_jwks_fallback(data, header) == SelectWith(data, header, TRUE, 1, FALSE)
_select_key_from_jwks_strict(data, header) == SelectWith(data, header, FALSE, 0, FALSE)
_select_key_from_jwks_first(data, header) == SelectWith(data, header, FALSE, 1, TRUE)

_select_key_from_jwks(data, header) ==
    LET kid == Get(header, "kid")
        loaded == _load_keys_from_json(data)
    IN  IF ~loaded.ok THEN loaded
        ELSE
        LET candidates == loaded.val
        IN  IF candidates = <<>>
            THEN Raise("JWTDecodeError", "JWKS does not contain any keys")
            ELSE IF kid # None THEN
                LET selected == FirstWithKid(candidates, kid, 1)
                IN  IF selected = None
                    THEN Raise("JWTDecodeError", "Key with kid not found in JWKS")
                    ELSE _jwk_to_key(selected)
            ELSE IF Len(candidates) > 1
                THEN Raise("JWTDecodeError", "JWKS contains multiple keys; specify 'kid'")
                ELSE _jwk_to_key(candidates[1])

\* serialization.load_pem_public_key
load_pem_public_key(text) ==
    IF text.body.pub = BadPem
    THEN Raise("ValueError", "Unable to load PEM file")
    ELSE Ok(text.body.pub)

\* raise JWTDecodeError("A key is required for verification") (line 139)
MissingKey_empty == Ok(EmptyBytes)
MissingKey == Raise("JWTDecodeError", "A key is required for verification")

_load_key_material(k, header) ==
    IF k = None THEN MissingKey
    ELSE IF k.t = "bytes" THEN Ok(k)
    ELSE IF k.t = "str" THEN
        LET text == Strip(k)
        IN  IF text.body.form = "pem" THEN load_pem_public_key(text)
            ELSE IF text.body.form \in {"json", "badjson"} THEN
                IF text.body.form = "badjson"
                THEN Raise("JWTDecodeError", "Invalid JSON key material")
                ELSE _select_key_from_jwks(text.body.doc, header)
            ELSE _load_shared_secret(text)
    ELSE IF k.t \in {"dict", "list"} THEN _select_key_from_jwks(k, header)
    ELSE Raise("JWTDecodeError", "Unsupported key type")

\* key_material.verify(signature, signing_input, ...) of the crypto library:
\* returns None, or raises InvalidSignature; a call with the arguments of
\* the other key family is a TypeError
key_verify(key_mat, signature, input, scheme, hash) ==
    IF key_mat.t \notin {"rsapub", "ecpub"}
    THEN Raise("AttributeError", "object has no attribute 'verify'")
    ELSE IF key_mat.t = "rsapub" THEN
        IF scheme = "ECDSA" THEN Raise("TypeError", "verify() missing argument")
        ELSE IF signature = RsaSig(scheme, hash, key_mat.modulus, input) THEN Ok(None)
        ELSE Raise("InvalidSignature", "")
    ELSE
        IF scheme # "ECDSA" THEN Raise("TypeError", "verify() takes 3 arguments")
        ELSE IF signature = EcSig("der", hash, key_mat.point, input) THEN Ok(None)
        ELSE Raise("InvalidSignature", "")

\* try: key_material.verify(...) except InvalidSignature: return False
\* return True
VerifyOrFalse(key_mat, signature_raw, input, scheme, hash) ==
    LET signature == _b64url_decode(signature_raw)
    IN  IF ~signature.ok THEN signature
        ELSE LET r == key_verify(key_mat, signature.val, input, scheme, hash)
             IN  IF r.ok THEN Ok(Bool(TRUE))
                 ELSE IF r.exc = "InvalidSignature" THEN Ok(Bool(FALSE))
                 ELSE r

\* raise JWTDecodeError(f"Unsupported algorithm for verification: ...") (line 230)
UnsupportedAlgorithm_false == Ok(Bool(FALSE))
UnsupportedAlgorithm == Raise("JWTDecodeError", "Unsupported algorithm for verification")

_verify_signature(algorithm, signing_input, signature_raw, key_mat) ==
    IF ~Hashable(algorithm) THEN Raise("TypeError", "unhashable type")
    ELSE IF InTable(algorithm, DOMAIN SUPPORTED_HMAC) THEN
        LET secret == _load_shared_secret(key_mat)
            actual == _b64url_decode(signature_raw)
        IN  IF ~secret.ok THEN secret
            ELSE IF ~actual.ok THEN actual
            ELSE Ok(Bool(compare_digest(
                     Hmac(secret.val, signing_input, SUPPORTED_HMAC[algorithm.s]),
                     actual.val)))
    ELSE IF InTable(algorithm, DOMAIN RSA_HASHES) THEN
        IF ~HasVerify(key_mat)
        THEN Raise("JWTDecodeError", "RSA verification requires a public key")
        ELSE VerifyOrFalse(key_mat, signature_raw, signing_input,
                           "PKCS1v15", RSA_HASHES[algorithm.s])
    ELSE IF InTable(algorithm, DOMAIN RSA_PSS_HASHES) THEN
        IF ~HasVerify(key_mat)
        THEN Raise("JWTDecodeError", "RSA-PSS verification requires a public key")
        ELSE VerifyOrFalse(key_mat, signature_raw, signing_input,
                           "PSS", RSA_PSS_HASHES[algorithm.s])
    ELSE IF InTable(algorithm, DOMAIN ECDSA_HASHES) THEN
        IF ~HasVerify(key_mat)
        THEN Raise("JWTDecodeError", "ECDSA verification requires a public key")
        ELSE IF HasCurve(key_mat) /\ key_mat.curve # ECDSA_HASHES[algorithm.s].curve
        THEN Raise("JWTDecodeError", "ECDSA key does not match algorithm curve")
        ELSE VerifyOrFalse(key_mat, signature_raw, signing_input,
                           "ECDSA", ECDSA_HASHES[algorithm.s].hash)
    ELSE UnsupportedAlgorithm

DecodedJWT(header, payload, signature_valid, algorithm, key_id, warnings) ==
    [header |-> header, payload |-> payload, signature_valid |-> signature_valid,
     algorithm |-> algorithm, key_id |-> key_id, warnings |-> warnings]

\* header = json.loads(_b64url_decode(header_raw)) inside the try of lines
\* 251-255: a ValueError becomes JWTDecodeError, anything else propagates
LoadSegment(raw) ==
    LET decoded == _b64url_decode(raw)
        loaded == IF decoded.ok THEN json_loads(decoded.val) ELSE decoded
    IN  IF loaded.ok THEN loaded
        ELSE IF loaded.exc \in ValueErrors
        THEN Raise("JWTDecodeError", "Invalid JSON content")
        ELSE loaded

\* "algorithm is None" for algorithm = header.get("alg") (lines 257-267)
AlgMissing_key(header) == header.alg = Absent
AlgMissing(header) == Get(header, "alg") = None

\* the warnings of lines 259-263
Warnings_nocase(header) ==
    IF AlgMissing(header)
    THEN <<"Token header does not declare an 'alg' value">>
    ELSE IF InTable(Get(header, "alg"), {"none", "None", "NONE"})
    THEN <<"Token uses the insecure 'alg: none' algorithm">>
    ELSE <<>>
Warnings(header) ==
    IF AlgMissing(header)
    THEN <<"Token header does not declare an 'alg' value">>
    ELSE IF InTable(Get(header, "alg"), INSECURE_ALGORITHMS)
    THEN <<"Token uses the insecure 'alg: none' algorithm">>
    ELSE <<>>

\* "if verify or key is not None" (line 266)
VerificationRequested_flag(k, ver) == ver
VerificationRequested(k, ver) == ver \/ k # None

\* The run of decode_jwt: out is what it returns or raises, km what
\* _load_key_material gave, NotReached when line 272 did not run.
Run(out, km) == [out |-> out, km |-> km]

\* lines 267-270: the alg header refuses verification
AlgRefused(header) ==
    AlgMissing(header) \/ InTable(Get(header, "alg"), INSECURE_ALGORITHMS)

\* the checks of the alg header (lines 267-270), then the key (line 272):
\* the error raised, or the key material
CheckAlgThenKey_keyfirst(header, k) ==
    LET key_mat == _load_key_material(k, header)
    IN  IF ~key_mat.ok THEN key_mat
        ELSE IF AlgMissing(header)
        THEN Raise("JWTDecodeError", "Cannot verify token without 'alg' header")
        ELSE IF InTable(Get(header, "alg"), INSECURE_ALGORITHMS)
        THEN Raise("JWTDecodeError", "Tokens signed with 'none' cannot be verified")
        ELSE key_mat
CheckAlgThenKey(header, k) ==
    IF AlgMissing(header)
    THEN Raise("JWTDecodeError", "Cannot verify token without 'alg' header")
    ELSE IF InTable(Get(header, "alg"), INSECURE_ALGORITHMS)
    THEN Raise("JWTDecodeError", "Tokens signed with 'none' cannot be verified")
    ELSE _load_key_material(k, header)

decode_jwt_run(tok, k, ver) ==
    LET parts == Split(tok)
    IN  IF Len(parts) # 3
        THEN Run(Raise("JWTDecodeError", "Token must have exactly 3 parts"), NotReached)
        ELSE
        LET header_raw == parts[1]
            payload_raw == parts[2]
            signature_raw == parts[3]
            header_r == LoadSegment(header_raw)
            payload_r == LoadSegment(payload_raw)
        IN  IF ~header_r.ok THEN Run(header_r, NotReached)
            ELSE IF ~payload_r.ok THEN Run(payload_r, NotReached)
            ELSE
            LET header == header_r.val
                payload == payload_r.val
            IN  IF ~IsDict(header)
                THEN Run(Raise("AttributeError", "object has no attribute 'get'"), NotReached)
                ELSE
                LET algorithm == Get(header, "alg")
                    key_id == Get(header, "kid")
                    warnings == Warnings(header)
                IN  IF ~AlgMissing(header) /\ ~Hashable(algorithm)
                    THEN Run(Raise("TypeError", "unhashable type"), NotReached)
                    ELSE IF VerificationRequested(k, ver) THEN
                        LET signing_input == SigningInput(header_raw, payload_raw)
                            key_mat == CheckAlgThenKey(header, k)
                            signature_valid ==
                                _verify_signature(algorithm, signing_input,
                                                  signature_raw, key_mat.val)
                        IN  IF ~key_mat.ok
                            THEN Run(key_mat, IF AlgRefused(header) THEN NotReached
                                              ELSE key_mat)
                            ELSE IF ~signature_valid.ok THEN Run(signature_valid, key_mat)
                            ELSE Run(Ok(DecodedJWT(header, payload, signature_valid.val,
                                                   algorithm, key_id, warnings)), key_mat)
                    ELSE Run(Ok(DecodedJWT(header, payload, None,
                                           algorithm, key_id, warnings)), NotReached)

decode_jwt(tok, k, ver) == decode_jwt_run(tok, k, ver).out

----------------------------------------------------------------------------
(* src/bot/routers/tools/jwt_tools.py *)

\* bool(value): None and the empty string are false; a JSON array in a
\* header stands for a non-empty one
Truthy(v) == v \notin {None, Str(""), Text(0, Plain(""), 0)}

\* the status line of lines 71-75
StatusLine_truthy(signature_valid) ==
    IF signature_valid = Bool(TRUE) THEN "Signature: valid" ELSE "Signature: invalid"
StatusLine(signature_valid) ==
    IF signature_valid = Bool(TRUE) THEN "Signature: valid"
    ELSE IF signature_valid = Bool(FALSE) THEN "Signature: invalid"
    ELSE "Signature: not verified"

\* the text returned at line 69; the head stands for the cross mark and
\* "Failed to process token:"
FailedSummary(msg) == [head |-> "Failed to process token:", msg |-> msg]

\* the text returned at line 90
DecodedSummary(decoded) ==
    [head |-> "JWT decoded successfully:",
     algorithm |-> IF Truthy(decoded.algorithm) THEN decoded.algorithm ELSE Str("unknown"),
     key_id |-> IF Truthy(decoded.key_id) THEN decoded.key_id ELSE Str("n/a"),
     status |-> StatusLine(decoded.signature_valid),
     header |-> decoded.header,
     payload |-> decoded.payload,
     warnings |-> decoded.warnings]

\* the arguments render_jwt_summary passes to decode_jwt (lines 61-66)
decode_kwargs(k, ver) ==
    IF k # None THEN [key |-> k, verify |-> TRUE]
    ELSE IF ver THEN [key |-> None, verify |-> TRUE]
    ELSE [key |-> None, verify |-> FALSE]

\* lines 67-90 of render_jwt_summary, given what its decode_jwt call
\* returned or raised: the text returned, or the exception that leaves it
Render(decoded) ==
    IF ~decoded.ok
    THEN IF decoded.exc = "JWTDecodeError"
         THEN Ok(FailedSummary(decoded.msg))
         ELSE decoded
    ELSE Ok(DecodedSummary(decoded.val))

render_jwt_summary(tok, k, ver) ==
    Render(decode_jwt(tok, decode_kwargs(k, ver).key, decode_kwargs(k, ver).verify))

\* should_verify = verify or bool(key) (line 117)
should_verify(k, ver) == ver \/ Truthy(k)

----------------------------------------------------------------------------
(* The calls of the model *)

Pads == 0..MaxPad

\* header and payload documents
Header(alg, kid) == [t |-> "dict", alg |-> alg, kid |-> kid]
Claims(sub) == [t |-> "dict", sub |-> sub]
JsonSeg(doc) == Seg(TRUE, 0, JsonBytes(doc))
SigSeg(sig) == Seg(TRUE, 3, sig)

HeaderAlgs ==
    {Absent, None, List, PyInt, Str("none"), Str("NONE"), Str("None"), Str("hs256"),
     Str("HS256"), Str("HS384"), Str("RS256"), Str("PS256"), Str("ES256"), Str("ES384"),
     Str("XX")}
HeaderKids == {Absent, Str("k1"), Str("k2")}
Headers ==
    {Header(alg, kid) : alg \in HeaderAlgs, kid \in HeaderKids}
    \cup {Header(Str("HS256"), None), Header(Str("HS256"), List)}

\* segments that are not the encoding of a JSON object
BadSegs ==
    {JsonSeg(List), JsonSeg(Str("text")), JsonSeg(PyInt), JsonSeg(None),
     Seg(TRUE, 0, Garbage), Seg(TRUE, 1, Garbage), Seg(FALSE, 0, Garbage), EmptySeg}

P1 == JsonSeg(Claims(Str("123")))
P2 == JsonSeg(Claims(Str("456")))
H1 == JsonSeg(Header(Str("HS256"), Absent))

\* the secrets a token is signed with
SignSecrets == {SecretBytes("s1", lead, trail) : lead \in Pads, trail \in Pads}

\* signature segments every token is tried with
CommonSigs(input) ==
    {SigSeg(Hmac(SecretBytes("s1", 0, 0), input, "sha256")),
     SigSeg(RsaSig("PKCS1v15", "sha256", "N1", input)),
     SigSeg(Garbage),
     Seg(TRUE, 1, Garbage),
     Seg(FALSE, 0, Garbage),
     EmptySeg}

\* further signatures of the HS256 tokens
HmacSigs(input) ==
    {SigSeg(Hmac(secret, input, "sha256")) : secret \in SignSecrets}
    \cup {SigSeg(Hmac(SecretBytes("s1", 0, 0), input, "sha384")),
          SigSeg(Hmac(SecretBytes("s1", 0, 0), SigningInput(input.h, P2), "sha256"))}

SigsFor(h, p) ==
    CommonSigs(SigningInput(h, p))
    \cup (IF h.data.doc.alg = Str("HS256") /\ h.data.doc.kid \in {Absent, Str("k1")}
          THEN HmacSigs(SigningInput(h, p)) ELSE {})
    \cup (IF h.data.doc.alg \in {Str("PS256"), Str("ES256")}
          THEN {SigSeg(RsaSig("PSS", "sha256", "N1", SigningInput(h, p))),
                SigSeg(EcSig("der", "sha256", "Q256", SigningInput(h, p))),
                SigSeg(EcSig("raw", "sha256", "Q256", SigningInput(h, p)))}
          ELSE {})

\* a string of n parts joined by dots
RECURSIVE Join(_)
Join(parts) ==
    IF Len(parts) = 0 THEN <<>>
    ELSE IF Len(parts) = 1 THEN (IF parts[1] = EmptySeg THEN <<>> ELSE <<parts[1]>>)
    ELSE (IF parts[1] = EmptySeg THEN <<>> ELSE <<parts[1]>>) \o <<Dot>> \o Join(Tail(parts))

WellFormedTokens ==
    {Join(<<JsonSeg(h), P1, sig>>) : h \in Headers, sig \in {EmptySeg}} \cup
    UNION {{Join(<<JsonSeg(h), P1, sig>>) : sig \in SigsFor(JsonSeg(h), P1)} : h \in Headers}

BadSegmentTokens ==
    {Join(<<bad, P1, SigSeg(Garbage)>>) : bad \in BadSegs}
    \cup {Join(<<H1, bad, SigSeg(Garbage)>>) : bad \in BadSegs}
    \cup {Join(<<JsonSeg(Header(Str("none"), Absent)), bad, EmptySeg>>) : bad \in BadSegs}

\* tokens with another number of parts than 3
WrongPartsTokens ==
    {Join([i \in 1..n |-> CASE i = 1 -> H1
                            [] i = 2 -> P1
                            [] OTHER -> SigSeg(Hmac(SecretBytes("s1", 0, 0),
                                                    SigningInput(H1, P1), "sha256"))])
        : n \in (0..MaxParts) \ {3}}
    \cup {Join(<<H1, P1, EmptySeg, EmptySeg>>)}

Tokens == WellFormedTokens \cup BadSegmentTokens \cup WrongPartsTokens

\* JWKs
NoKeys == Absent
B64(data) == Param(Seg(TRUE, 0, data))
OctJwk(kid, secret) ==
    Dict(NoKeys, Str("oct"), kid, B64(secret), Absent, Absent, Absent, Absent, Absent, Absent)
RsaJwk(kid, n) ==
    Dict(NoKeys, Str("RSA"), kid, Absent, B64(IntBytes(n)), B64(IntBytes("AQAB")),
         Absent, Absent, Absent, Absent)
EcJwk(kid, crv, point, alg) ==
    Dict(NoKeys, Str("EC"), kid, Absent, Absent, Absent,
         B64(IntBytes(point)), B64(IntBytes("y")), crv, alg)
OtherJwk(kty, kid) ==
    Dict(NoKeys, kty, kid, Absent, Absent, Absent, Absent, Absent, Absent, Absent)
Jwks(items) ==
    Dict(ListOf(items), Absent, Absent, Absent, Absent, Absent, Absent, Absent, Absent, Absent)

\* the entries of the JWK sets
JwkItems ==
    {OctJwk(Str("k1"), SecretBytes("s1", 0, 0)),
     OctJwk(Str("k2"), SecretBytes("s2", 0, 0)),
     OctJwk(Absent, SecretBytes("s1", 0, 0)),
     RsaJwk(Str("k1"), "N1"),
     OtherJwk(Str("OKP"), Str("k2")),
     PyInt}

SingleJwks ==
    (JwkItems \ {PyInt})
    \cup {RsaJwk(Str("k2"), "N2"),
          OtherJwk(Str("OKP"), Str("k1")),
          OtherJwk(Absent, Absent),
          Dict(NoKeys, Str("oct"), Absent, Param(Seg(TRUE, 1, Garbage)), Absent, Absent,
               Absent, Absent, Absent, Absent),
          EcJwk(Absent, Str("P-256"), "Q256", Absent),
          EcJwk(Absent, Str("P-384"), "Q384", Str("ES384")),
          EcJwk(Absent, Str("P-384"), "Q384", Absent),
          EcJwk(Absent, Str("P-256"), "Q256", Str("ES256")),
          EcJwk(Absent, Str("P-521"), "Q521", None)}

ItemLists == UNION {[1..n -> JwkItems] : n \in 0..MaxJwks}

JsonKeys ==
    SingleJwks
    \cup {Jwks(items) : items \in ItemLists}
    \cup {ListOf(items) : items \in ItemLists}
    \cup {Dict(PyInt, Absent, Absent, Absent, Absent, Absent, Absent, Absent, Absent, Absent)}

\* JSON key material passed as text
JsonTextKeys ==
    {Text(lead, JsonText(doc), 0) :
        lead \in Pads,
        doc \in {OctJwk(Str("k1"), SecretBytes("s1", 0, 0)),
                 Jwks(<<OctJwk(Str("k2"), SecretBytes("s2", 0, 0)),
                        OctJwk(Str("k1"), SecretBytes("s1", 0, 0))>>),
                 ListOf(<<RsaJwk(Str("k1"), "N1")>>)}}
    \cup {Text(0, BadJsonText, 0)}

PemKeys ==
    {Text(lead, Pem(pub), 0) :
        lead \in Pads,
        pub \in {RsaPub("N1"), EcPub("secp256r1", "Q256"), EcPub("secp384r1", "Q384"), BadPem}}

SecretNames == {"s1", "s2"}
BytesKeys == {SecretBytes(s, lead, trail) : s \in SecretNames, lead \in Pads, trail \in Pads}
TextKeys ==
    {Text(lead, Plain(s), trail) : s \in SecretNames, lead \in Pads, trail \in Pads}
    \cup {Text(0, Plain(""), 0)}

Keys == {None} \cup BytesKeys \cup TextKeys \cup PemKeys \cup JsonKeys \cup JsonTextKeys

----------------------------------------------------------------------------
(* The specification *)

NoOutcome == Raise("-", "pending")

\* the storage, with no call of save_upload
Calls == 1..MaxCalls
NotStored == [user_id |-> <<>>, job_id |-> <<>>, filename |-> <<>>,
              path |-> [user |-> <<>>, job |-> <<>>, name |-> <<>>], size |-> 0]
StorageIdle ==
    /\ user_id = <<>> /\ job_id = <<>> /\ filename = <<>>
    /\ files = <<>>
    /\ job_dirs = {}
    /\ save_pc = [c \in Calls |-> "idle"]
    /\ save_target = [c \in Calls |-> <<>>]
    /\ stored = [c \in Calls |-> NotStored]

\* no call of ToolExecutionHelper.execute
ToolIdle ==
    /\ fsm_state = "none"
    /\ validator = [awaitable |-> FALSE, result |-> "returns"]
    /\ executor = [awaitable |-> FALSE, result |-> "returns"]
    /\ tool_pc = "idle"
    /\ tool_outcome = [ok |-> FALSE, exc |-> "-", msg |-> "pending"]

\* the rate limiter, never hit
LimiterKeys == {"u1", "u2"}
NoDue == 0 - 1
NoStatus == [allowed |-> FALSE, remaining |-> 0, retry_after |-> 0, limit |-> 0]
NoHit == [key |-> "-", at |-> 0, due |-> NoDue]
LimiterIdle ==
    /\ clock = 0 /\ limit = 1 /\ window = 1
    /\ _hits = [k \in LimiterKeys |-> <<>>]
    /\ allowed_log = [k \in LimiterKeys |-> <<>>]
    /\ status = NoStatus
    /\ retry_due = [k \in LimiterKeys |-> NoDue]
    /\ last_hit = NoHit

\* the history of a user, with no call
HistoryIdle ==
    /\ _redis_client = "None"
    /\ history_store = <<>>
    /\ _locks = 0
    /\ add_pc = [c \in Calls |-> "idle"]
    /\ description = [c \in Calls |-> "-"]
    /\ history = [c \in Calls |-> <<>>]
    /\ completed = <<>>

SessionKeys == {"a", "b"}
SessionValues == {"x", "y"}
NoItem == "absent"
\* a dict over SessionKeys: NoItem where the key is not in it
Payloads == [SessionKeys -> SessionValues \cup {NoItem}]
EmptyPayload == [k \in SessionKeys |-> NoItem]

\* the middleware before an event
SessionIdle ==
    /\ has_user = FALSE
    /\ session_store = EmptyPayload
    /\ _data = EmptyPayload
    /\ _dirty = FALSE
    /\ mw_pc = "start"
    /\ modified = FALSE
    /\ writes = 0
    /\ raised = FALSE
    /\ ops = 0

Init ==
    /\ StorageIdle
    /\ ToolIdle
    /\ LimiterIdle
    /\ HistoryIdle
    /\ SessionIdle
    /\ token \in Tokens
    /\ key \in Keys
    /\ verify \in BOOLEAN
    /\ pc = "called"
    /\ outcome = NoOutcome
    /\ key_material = NotReached
    /\ summary = NoOutcome

\* one call decode_jwt(token, key=key, verify=verify)
DecodeJwt ==
    /\ pc = "called"
    /\ LET run == decode_jwt_run(token, key, verify)
       IN  /\ outcome' = run.out
           /\ key_material' = run.km
    /\ pc' = "done"
    /\ UNCHANGED <<token, key, verify, summary>>
    /\ UNCHANGED not_jwt

\* the front end is given text keys only (JWTRequest.key: str | None)
FrontEndKey == key.t \in {"None", "str"}

\* one call render_jwt_summary(token, key=key, verify=verify)
RenderJwtSummary ==
    /\ pc = "called"
    /\ FrontEndKey
    /\ LET kwargs == decode_kwargs(key, verify)
           run == decode_jwt_run(token, kwargs.key, kwargs.verify)
       IN  /\ outcome' = run.out
           /\ key_material' = run.km
    /\ summary' = Render(outcome')
    /\ pc' = "rendered"
    /\ UNCHANGED <<token, key, verify>>
    /\ UNCHANGED not_jwt

\* handle_jwt_command from line 117 on, for a request whose token and key
\* are those of lines 97-115: the answer sent is the summary
HandleJwtCommand ==
    /\ pc = "called"
    /\ FrontEndKey
    /\ LET kwargs == decode_kwargs(key, should_verify(key, verify))
           run == decode_jwt_run(token, kwargs.key, kwargs.verify)
       IN  /\ outcome' = run.out
           /\ key_material' = run.km
    /\ summary' = Render(outcome')
    /\ pc' = "answered"
    /\ UNCHANGED <<token, key, verify>>
    /\ UNCHANGED not_jwt

Next == DecodeJwt \/ RenderJwtSummary \/ HandleJwtCommand

Spec == Init /\ [][Next]_vars

\* the decoder, with no call
JwtIdle ==
    /\ token = <<>> /\ key = None /\ verify = FALSE
    /\ pc = "idle" /\ outcome = NoOutcome /\ key_material = NotReached
    /\ summary = NoOutcome

----------------------------------------------------------------------------
(* Reading a call and its result *)

Done == pc = "done"
Requested == verify \/ key # None

\* the number of "." in the token
Dots == Cardinality({i \in DOMAIN token : token[i] = Dot})

\* the n-th part of the token: what stands after n - 1 dots
Part(n) ==
    LET at == {i \in DOMAIN token :
                  /\ token[i] # Dot
                  /\ Cardinality({j \in 1..i : token[j] = Dot}) = n - 1}
    IN  IF at = {} THEN EmptySeg ELSE token[CHOOSE i \in at : TRUE]

\* the segment is Base64URL of a JSON text, of a JSON object
IsBase64(segment) == segment.ascii /\ segment.n4 # 1
IsJsonSeg(segment) == IsBase64(segment) /\ segment.data.kind = "json"
IsObjectSeg(segment) == IsJsonSeg(segment) /\ segment.data.doc.t = "dict"

\* three parts, a JSON object as header and a JSON text as payload
Decodable == Dots = 2 /\ IsObjectSeg(Part(1)) /\ IsJsonSeg(Part(2))
HeaderObj == Part(1).data.doc
ThisInput == SigningInput(Part(1), Part(2))

DeclaresKid == HeaderObj.kid \notin {Absent, None}
AlgIn(names) == HeaderObj.alg.t = "str" /\ HeaderObj.alg.s \in names
\* the checks of the alg header pass and the key is looked at
ReachesKey ==
    /\ Decodable /\ Requested
    /\ HeaderObj.alg \notin {Absent, None, List}
    /\ ~AlgIn({"none", "NONE"})

Raised(msg) == Done /\ ~outcome.ok /\ outcome.exc = "JWTDecodeError" /\ outcome.msg = msg
Returned == Done /\ outcome.ok

\* the key is a JWK or a JWK set, as an object or as JSON text
IsJwkKey ==
    \/ key.t \in {"dict", "list"}
    \/ key.t = "str" /\ key.body.form = "json"
KeyDoc == IF key.t = "str" THEN key.body.doc ELSE key
\* the candidate keys of the set, in order
Candidates ==
    LET entries == IF KeyDoc.t = "list" THEN KeyDoc.items
                   ELSE IF KeyDoc.keys = Absent THEN <<KeyDoc>>
                   ELSE KeyDoc.keys.items
        dicts == {i \in DOMAIN entries : entries[i].t = "dict"}
    IN  [n \in 1..Cardinality(dicts) |->
            entries[CHOOSE i \in dicts : Cardinality({j \in dicts : j <= i}) = n]]
IsJwkSet == IsJwkKey /\ (KeyDoc.t = "dict" /\ KeyDoc.keys # Absent => KeyDoc.keys.t = "list")
KidOf(jwk) == IF jwk.kid = Absent THEN None ELSE jwk.kid

\* the key is a shared secret, and the bytes it stands for
IsSecretKey ==
    \/ key.t = "bytes"
    \/ key.t = "str" /\ key.body.form = "plain"
SecretOf(k) == IF k.t = "bytes" THEN k ELSE SecretBytes(k.body.s, k.lead, k.trail)

----------------------------------------------------------------------------
(* The claims *)

C2_HmacCorrect ==
    (/\ Done /\ Decodable /\ IsObjectSeg(Part(2)) /\ HeaderObj.alg = Str("HS256")
     /\ verify /\ IsSecretKey
     /\ IsBase64(Part(3)) /\ Part(3).data.kind = "mac"
     /\ Part(3).data.hash = "sha256" /\ Part(3).data.input = ThisInput) =>
        /\ outcome.ok
        /\ outcome.val.signature_valid = Bool(SecretOf(key) = Part(3).data.secret)

\* C3: with a kid in the header and a JWK or JWK set as key, the key used is
\* that of a candidate with the same kid, at any position; if no candidate
\* has the kid the call raises JWTDecodeError and no key is used.
C3_KidSelectsKey ==
    (Done /\ ReachesKey /\ IsJwkSet /\ DeclaresKid) =>
        LET matching == {i \in DOMAIN Candidates : KidOf(Candidates[i]) = HeaderObj.kid}
        IN  IF matching = {}
            THEN /\ ~key_material.ok
                 /\ outcome = key_material
                 /\ \/ Raised("Key with kid not found in JWKS")
                    \/ Candidates = <<>> /\ Raised("JWKS does not contain any keys")
            ELSE key_material \in {_jwk_to_key(Candidates[i]) : i \in matching}

C3_Witness ==
    /\ Done /\ ReachesKey /\ IsJwkSet /\ DeclaresKid
    /\ Len(Candidates) = 2
    /\ KidOf(Candidates[1]) # HeaderObj.kid
    /\ KidOf(Candidates[2]) = HeaderObj.kid
    /\ key_material = _jwk_to_key(Candidates[2])
    /\ outcome.ok /\ outcome.val.signature_valid = Bool(TRUE)

C5_AmbiguousKeys ==
    (/\ Done /\ Decodable /\ Requested /\ IsJwkSet
     /\ ~DeclaresKid /\ Len(Candidates) > 1) =>
        /\ ~outcome.ok
        /\ ~key_material.ok
        /\ ReachesKey =>
               /\ Raised("JWKS contains multiple keys; specify 'kid'")
               /\ key_material = outcome

C5_Witness ==
    /\ Done /\ ReachesKey /\ IsJwkSet /\ ~DeclaresKid
    /\ Len(Candidates) = 2 /\ Candidates[1] # Candidates[2]
    /\ Raised("JWKS contains multiple keys; specify 'kid'")

\* C6: a three-part token whose header or payload is not the Base64URL
\* encoding of a JSON object makes decode_jwt raise JWTDecodeError.
C6_NonObjectRejected ==
    (Done /\ Dots = 2 /\ (~IsObjectSeg(Part(1)) \/ ~IsObjectSeg(Part(2)))) =>
        ~outcome.ok /\ outcome.exc = "JWTDecodeError"

\* C7: a token with fewer or more than two dots makes decode_jwt raise
\* JWTDecodeError (exactly 3 parts), whatever key and verify are.
C7_ThreeParts ==
    (Done /\ Dots # 2) => Raised("Token must have exactly 3 parts")

C7_Witness ==
    /\ Done /\ Dots = 3 /\ verify /\ key # None
    /\ IsObjectSeg(Part(1)) /\ IsObjectSeg(Part(2))
    /\ Raised("Token must have exactly 3 parts")

\* C8: for a token of three parts whose header and payload are JSON objects,
\* decode_jwt(token, key=None, verify=False) returns signature_valid None
\* and never raises, whatever alg and kid are.
C8_DecodeOnly ==
    (/\ Done /\ Dots = 2 /\ IsObjectSeg(Part(1)) /\ IsObjectSeg(Part(2))
     /\ key = None /\ ~verify) =>
        outcome.ok /\ outcome.val.signature_valid = None

FamilyMatches ==
    /\ key_material.ok
    /\ \/ AlgIn(DOMAIN SUPPORTED_HMAC) /\ key_material.val.t = "bytes"
       \/ AlgIn(DOMAIN RSA_HASHES \cup DOMAIN RSA_PSS_HASHES)
              /\ key_material.val.t = "rsapub"
       \/ AlgIn(DOMAIN ECDSA_HASHES) /\ key_material.val.t = "ecpub"
              /\ key_material.val.curve = ECDSA_HASHES[HeaderObj.alg.s].curve

\* the signature the key accepts for this token
ValidSignature ==
    LET alg == HeaderObj.alg.s
        km == key_material.val
    IN  IF alg \in DOMAIN SUPPORTED_HMAC THEN Hmac(km, ThisInput, SUPPORTED_HMAC[alg])
        ELSE IF alg \in DOMAIN RSA_HASHES
        THEN RsaSig("PKCS1v15", RSA_HASHES[alg], km.modulus, ThisInput)
        ELSE IF alg \in DOMAIN RSA_PSS_HASHES
        THEN RsaSig("PSS", RSA_PSS_HASHES[alg], km.modulus, ThisInput)
        ELSE EcSig("der", ECDSA_HASHES[alg].hash, km.point, ThisInput)

\* C10: with a supported algorithm and a key of its family, a signature
\* segment that does not verify (other bytes, not decodable, empty) gives
\* signature_valid False, never an exception.
C10_BadSignatureIsFalse ==
    (/\ Done /\ ReachesKey /\ FamilyMatches
     /\ ~(IsBase64(Part(3)) /\ Part(3).data = ValidSignature)) =>
        outcome.ok /\ outcome.val.signature_valid = Bool(FALSE)

\* the key is an EC public key, as PEM text or as a single JWK of kty EC
IsEcKey ==
    \/ key.t = "str" /\ key.body.form = "pem" /\ key.body.pub.t = "ecpub"
    \/ IsJwkSet /\ Len(Candidates) = 1 /\ Get(Candidates[1], "kty") = Str("EC")
\* the curve that key is on
EcKeyCurve ==
    IF key.t = "str" /\ key.body.form = "pem" THEN key.body.pub.curve
    ELSE CurveOf(Candidates[1].x.seg.data.s)

\* C11: an ES* token verified with an EC key that is on another curve than
\* the one of the algorithm, given as PEM or as a JWK, makes decode_jwt
\* raise JWTDecodeError; no result is returned.
C11_CurveMismatch ==
    (/\ Done /\ ReachesKey /\ AlgIn(DOMAIN ECDSA_HASHES) /\ IsEcKey
     /\ EcKeyCurve # ECDSA_HASHES[HeaderObj.alg.s].curve) =>
        ~outcome.ok /\ outcome.exc = "JWTDecodeError"

\* the alg of the header is a text that is none of the 10 supported names
\* and neither "none" nor "NONE"
OtherAlg ==
    /\ HeaderObj.alg.t = "str"
    /\ ~AlgIn(DOMAIN SUPPORTED_HMAC \cup DOMAIN RSA_HASHES
              \cup DOMAIN RSA_PSS_HASHES \cup DOMAIN ECDSA_HASHES \cup {"none", "NONE"})

\* C12 as claimed: when verification is requested and alg is outside the 10
\* supported names and outside {none, NONE}, decode_jwt raises the
\* unsupported-algorithm error.
C12_UnsupportedAlways ==
    (Done /\ Decodable /\ Requested /\ OtherAlg) =>
        Raised("Unsupported algorithm for verification")

\* C12: when verification is requested and alg is outside the 10 supported
\* names and outside {none, NONE}, decode_jwt never returns a DecodedJWT.
\* The key is resolved first: if that fails the call raises the error of the
\* key resolution, otherwise it raises the unsupported-algorithm error.
C12_Unsupported ==
    (Done /\ Decodable /\ Requested /\ OtherAlg) =>
        /\ ~outcome.ok
        /\ IF key_material.ok
           THEN Raised("Unsupported algorithm for verification")
           ELSE outcome = key_material

C12_Witness ==
    /\ Done /\ Decodable /\ Requested /\ HeaderObj.alg = Str("hs256")
    /\ key_material.ok
    /\ Raised("Unsupported algorithm for verification")

C14_Warnings ==
    Returned =>
        outcome.val.warnings =
            IF HeaderObj.alg \in {Absent, None}
            THEN <<"Token header does not declare an 'alg' value">>
            ELSE IF AlgIn({"none", "NONE"})
            THEN <<"Token uses the insecure 'alg: none' algorithm">>
            ELSE <<>>

C14_Witness ==
    /\ Returned /\ HeaderObj.alg = Str("None")
    /\ outcome.val.warnings = <<>>
    /\ outcome.val.signature_valid = None

\* C15: verify = True without a key, on a token with one of the 10
\* supported algorithms, raises JWTDecodeError "A key is required for
\* verification"; nothing is returned.
C15_KeyRequired ==
    (/\ Done /\ Decodable /\ verify /\ key = None
     /\ AlgIn(DOMAIN SUPPORTED_HMAC \cup DOMAIN RSA_HASHES
              \cup DOMAIN RSA_PSS_HASHES \cup DOMAIN ECDSA_HASHES)) =>
        /\ Raised("A key is required for verification")
        /\ key_material = outcome

C15_Witness ==
    /\ Done /\ Decodable /\ verify /\ key = None /\ AlgIn({"ES256"})
    /\ Raised("A key is required for verification")

\* C16: a token of an asymmetric algorithm (RS*, PS*, ES*) verified with a
\* shared secret as key (bytes, or text that is neither PEM nor JSON) makes
\* decode_jwt raise JWTDecodeError "... requires a public key"; no
\* signature_valid is returned.
C16_SecretForAsymmetric ==
    (/\ Done /\ Decodable /\ IsSecretKey
     /\ AlgIn(DOMAIN RSA_HASHES \cup DOMAIN RSA_PSS_HASHES \cup DOMAIN ECDSA_HASHES)) =>
        /\ ~outcome.ok
        /\ outcome.exc = "JWTDecodeError"
        /\ outcome.msg \in {"RSA verification requires a public key",
                            "RSA-PSS verification requires a public key",
                            "ECDSA verification requires a public key"}

C16_Witness ==
    /\ Done /\ Decodable /\ key.t = "bytes" /\ ~verify /\ AlgIn({"PS256"})
    /\ Raised("RSA-PSS verification requires a public key")

\* the JWK that key selection picks: the first candidate with the kid of the
\* header, or the only candidate when the header has no kid; None if none
SelectedJwk ==
    LET matching == {i \in DOMAIN Candidates : KidOf(Candidates[i]) = HeaderObj.kid}
    IN  IF DeclaresKid
        THEN IF matching = {} THEN None
             ELSE Candidates[CHOOSE i \in matching : \A j \in matching : i <= j]
        ELSE IF Len(Candidates) = 1 THEN Candidates[1] ELSE None

\* C17: when the selected JWK has a kty other than oct, RSA and EC, or has
\* no kty, key resolution raises JWTDecodeError "Unsupported JWK key type"
\* and so does decode_jwt.
C17_UnsupportedKty ==
    (/\ Done /\ ReachesKey /\ IsJwkSet /\ SelectedJwk # None
     /\ Get(SelectedJwk, "kty") \notin {Str("oct"), Str("RSA"), Str("EC")}) =>
        /\ Raised("Unsupported JWK key type")
        /\ key_material = outcome

C17_Witness ==
    /\ Done /\ ReachesKey /\ IsJwkSet /\ DeclaresKid
    /\ Len(Candidates) = 2 /\ SelectedJwk = Candidates[2]
    /\ Get(SelectedJwk, "kty") = Str("OKP")
    /\ Raised("Unsupported JWK key type")

Rendered == pc \in {"rendered", "answered"}

\* C18: whatever decode_jwt raises inside render_jwt_summary, the function
\* returns a text that starts with the failure mark and "Failed to process
\* token:"; no exception leaves render_jwt_summary.
C18_ErrorsRendered ==
    (pc = "rendered" /\ ~outcome.ok) =>
        /\ summary.ok
        /\ summary.val.head = "Failed to process token:"

\* C19: in the front end a key that is given makes decode_jwt verify, also
\* when verify was not asked for, and the status line of the summary is
\* "valid" exactly for signature_valid True, "invalid" exactly for False and
\* "not verified" exactly for None.
C19_StatusLine ==
    (Rendered /\ outcome.ok) =>
        /\ summary.ok
        /\ summary.val.head = "JWT decoded successfully:"
        /\ summary.val.status = "Signature: valid"
               <=> outcome.val.signature_valid = Bool(TRUE)
        /\ summary.val.status = "Signature: invalid"
               <=> outcome.val.signature_valid = Bool(FALSE)
        /\ summary.val.status = "Signature: not verified"
               <=> outcome.val.signature_valid = None
        /\ key # None => outcome.val.signature_valid \in {Bool(TRUE), Bool(FALSE)}
        /\ key = None /\ ~verify => outcome.val.signature_valid = None

C19_Witness ==
    /\ pc = "answered" /\ ~verify /\ key # None
    /\ outcome.ok /\ outcome.val.signature_valid = Bool(FALSE)
    /\ summary.ok /\ summary.val.status = "Signature: invalid"

\* the key is a single JWK of kty EC with text x, y and crv
IsEcJwk ==
    /\ IsJwkSet /\ Len(Candidates) = 1 /\ ~DeclaresKid
    /\ Get(Candidates[1], "kty") = Str("EC")
    /\ IsStr(Candidates[1].x) /\ IsStr(Candidates[1].y) /\ IsStr(Candidates[1].crv)
\* the curve a crv name stands for
CurveNamed(crv) ==
    CASE crv = Str("P-256") -> "secp256r1"
      [] crv = Str("P-384") -> "secp384r1"
      [] crv = Str("P-521") -> "secp521r1"
      [] OTHER -> "None"

\* C23: an EC JWK gives a public key on the curve its crv names (P-256,
\* P-384, P-521), with or without an alg member, and raises JWTDecodeError
\* "Unsupported EC curve" for any other crv.
C23_CrvDecidesCurve ==
    (Done /\ ReachesKey /\ IsEcJwk) =>
        IF CurveNamed(Candidates[1].crv) # "None"
        THEN /\ key_material.ok
             /\ key_material.val.t = "ecpub"
             /\ key_material.val.curve = CurveNamed(Candidates[1].crv)
        ELSE Raised("Unsupported EC curve")

\* C24: when verification is requested the errors of decode_jwt come in a
\* fixed order: the malformed token, the missing alg, alg none, the key,
\* and only then the algorithm and the signature.  A token without alg or
\* with alg none or NONE raises its alg error whatever the key is, and no
\* key material is resolved for it.
C24_ErrorPrecedence ==
    (Done /\ Requested) =>
        /\ Dots # 2 =>
               Raised("Token must have exactly 3 parts") /\ key_material = NotReached
        /\ Dots = 2 /\ ~Decodable => ~outcome.ok /\ key_material = NotReached
        /\ Decodable /\ HeaderObj.alg \in {Absent, None} =>
               /\ Raised("Cannot verify token without 'alg' header")
               /\ key_material = NotReached
        /\ Decodable /\ AlgIn({"none", "NONE"}) =>
               /\ Raised("Tokens signed with 'none' cannot be verified")
               /\ key_material = NotReached
        /\ ReachesKey =>
               /\ key_material # NotReached
               /\ ~key_material.ok => outcome = key_material

C24_Witness ==
    /\ Done /\ Decodable /\ HeaderObj.alg = Absent
    /\ key.t = "dict" /\ IsJwkSet /\ Len(Candidates) = 2 /\ ~DeclaresKid
    /\ Raised("Cannot verify token without 'alg' header")
    /\ key_material = NotReached

\* C25: an HS256/HS384/HS512 token verified with a key that resolves to a
\* public key (PEM text, RSA or EC JWK) never gives signature_valid True;
\* the call raises JWTDecodeError and no other exception.
C25_HmacWithPublicKey ==
    (/\ Done /\ Decodable /\ AlgIn(DOMAIN SUPPORTED_HMAC)
     /\ key_material.ok /\ key_material.val.t \in {"rsapub", "ecpub"}) =>
        ~outcome.ok /\ outcome.exc = "JWTDecodeError"

----------------------------------------------------------------------------
(* src/bot/storage.py: StorageManager.save_upload *)

\* Text is a sequence of characters: "a" a letter, "." the dot, "/" the
\* path separator, " " white space, "*" any character outside [A-Za-z0-9._-]
Chars == {"a", ".", "/", " ", "*"}
Strings == UNION {[1..n -> Chars] : n \in 0..MaxLen}
NameLimit == 255

\* _SAFE_COMPONENT.sub("_", text) (line 23)
IsSafeChar(ch) == ch \in {"a", ".", "_", "-"}
SafeSub(text) == [i \in DOMAIN text |-> IF IsSafeChar(text[i]) THEN text[i] ELSE "_"]

\* text.strip()
RECURSIVE LStrip(_)
LStrip(text) ==
    IF text # <<>> /\ Head(text) = " " THEN LStrip(Tail(text)) ELSE text
RECURSIVE RStrip(_)
RStrip(text) ==
    IF text # <<>> /\ text[Len(text)] = " "
    THEN RStrip(SubSeq(text, 1, Len(text) - 1)) ELSE text
StrStrip(text) == RStrip(LStrip(text))

\* text[:255]
Truncate(text) == SubSeq(text, 1, IF Len(text) < NameLimit THEN Len(text) ELSE NameLimit)

\* the parts of Path(text): split at "/", without empty parts and "."
KeepPart(part) == IF part \in {<<>>, <<".">>} THEN <<>> ELSE <<part>>
RECURSIVE PathPartsFrom(_, _, _)
PathPartsFrom(text, i, part) ==
    IF i > Len(text) THEN KeepPart(part)
    ELSE IF text[i] = "/" THEN KeepPart(part) \o PathPartsFrom(text, i + 1, <<>>)
    ELSE PathPartsFrom(text, i + 1, Append(part, text[i]))
\* Path(text).name
PathName(text) ==
    LET parts == PathPartsFrom(text, 1, <<>>)
    IN  IF parts = <<>> THEN <<>> ELSE parts[Len(parts)]
\* Path(name).suffix and Path(name).stem, for a name without "/"
LastDot(name) ==
    LET dots == {i \in DOMAIN name : name[i] = "."}
    IN  IF dots = {} THEN 0 ELSE CHOOSE i \in dots : \A j \in dots : j <= i
HasSuffix(name) == 1 < LastDot(name) /\ LastDot(name) < Len(name)
PathSuffix(name) == IF HasSuffix(name) THEN SubSeq(name, LastDot(name), Len(name)) ELSE <<>>
PathStem(name) == IF HasSuffix(name) THEN SubSeq(name, 1, LastDot(name) - 1) ELSE name

\* hashlib.sha1(component).hexdigest()[:12]: one element that names the
\* component it is the digest of
RECURSIVE Flat(_)
Flat(text) == IF text = <<>> THEN "" ELSE Head(text) \o Flat(Tail(text))
Digest(component) == "sha1(" \o Flat(component) \o ")"

\* lines 230-236
_normalize_component(component, fallback) ==
    LET trimmed == StrStrip(component)
        cleaned == SafeSub(trimmed)
    IN  IF cleaned # <<>> /\ cleaned[1] # "."
        THEN Truncate(cleaned)
        ELSE <<fallback, "_", Digest(component)>>

\* lines 238-243
_sanitize_filename_dots(name_arg) ==
    LET name == PathName(name_arg)
        cleaned == SafeSub(name)
    IN  Truncate(IF cleaned = <<>> THEN <<"f", "i", "l", "e">> ELSE cleaned)
_sanitize_filename(name_arg) ==
    LET name == PathName(name_arg)
        cleaned == SafeSub(name)
    IN  Truncate(IF cleaned = <<>> \/ cleaned[1] = "."
                 THEN <<"f", "i", "l", "e">> ELSE cleaned)

\* job_dir / name, below users_dir
FilePath(user, job, name) == [user |-> user, job |-> job, name |-> name]
Exists(path) == path \in DOMAIN files

\* lines 219-228: the first of name, stem_1suffix, stem_2suffix, ... that
\* does not exist in the directory
Candidate(name, index) ==
    IF index = 0 THEN name
    ELSE (IF PathStem(name) = <<>> THEN <<"f", "i", "l", "e">> ELSE PathStem(name))
         \o <<"_", ToString(index)>> \o PathSuffix(name)
_unique_filename(user, job, name) ==
    LET free == {index \in 0..MaxCalls : ~Exists(FilePath(user, job, Candidate(name, index)))}
    IN  Candidate(name, CHOOSE index \in free : \A other \in free : index <= other)

StoredFile(user, job, name, path, size) ==
    [user_id |-> user, job_id |-> job, filename |-> name, path |-> path, size |-> size]

\* the bytes of the stream of a call: one chunk
Stream(c) == <<c, c>>
\* handle.write(chunk) at the position pos of a file
WriteAt(content, pos, chunk) ==
    [i \in 1..(IF Len(content) > pos + Len(chunk) THEN Len(content) ELSE pos + Len(chunk)) |->
        IF i > pos /\ i <= pos + Len(chunk) THEN chunk[i - pos] ELSE content[i]]

NormalizedUser == _normalize_component(user_id, "user")
NormalizedJob == _normalize_component(job_id, "job")

\* the arguments tried: one of the three runs over every text
StorageInit ==
    /\ \/ user_id \in Strings /\ job_id = <<"a">> /\ filename = <<"a", ".", "a">>
       \/ user_id = <<"a">> /\ job_id \in Strings /\ filename = <<"a", ".", "a">>
       \/ user_id = <<"a">> /\ job_id = <<"a">> /\ filename \in Strings
    /\ files = <<>>
    /\ job_dirs = {}
    /\ save_pc = [c \in Calls |-> "start"]
    /\ save_target = [c \in Calls |-> <<>>]
    /\ stored = [c \in Calls |-> NotStored]

\* lines 85-87: the components and the job directory
EnsureJobDir(c) ==
    /\ save_pc[c] = "start"
    /\ job_dirs' = job_dirs \cup {<<NormalizedUser, NormalizedJob>>}
    /\ save_pc' = [save_pc EXCEPT ![c] = "dir"]
    /\ UNCHANGED <<user_id, job_id, filename, files, save_target, stored>>
    /\ UNCHANGED not_storage

\* lines 88-90: the name of the file, looked up in a worker thread
UniqueFilename(c) ==
    /\ save_pc[c] = "dir"
    /\ save_target' = [save_target EXCEPT ![c] =
           _unique_filename(NormalizedUser, NormalizedJob, _sanitize_filename(filename))]
    /\ save_pc' = [save_pc EXCEPT ![c] = "named"]
    /\ UNCHANGED <<user_id, job_id, filename, files, job_dirs, stored>>
    /\ UNCHANGED not_storage

\* line 95: aiofiles.open(path, "wb") creates the file or empties it
OpenTarget(c) ==
    /\ save_pc[c] = "named"
    /\ LET path == FilePath(NormalizedUser, NormalizedJob, save_target[c])
       IN  files' = [p \in DOMAIN files \cup {path} |-> IF p = path THEN <<>> ELSE files[p]]
    /\ save_pc' = [save_pc EXCEPT ![c] = "open"]
    /\ UNCHANGED <<user_id, job_id, filename, job_dirs, save_target, stored>>
    /\ UNCHANGED not_storage

\* lines 96-102: the chunk is written at the start of the file
WriteChunk(c) ==
    /\ save_pc[c] = "open"
    /\ LET path == FilePath(NormalizedUser, NormalizedJob, save_target[c])
       IN  files' = [files EXCEPT ![path] = WriteAt(files[path], 0, Stream(c))]
    /\ save_pc' = [save_pc EXCEPT ![c] = "written"]
    /\ UNCHANGED <<user_id, job_id, filename, job_dirs, save_target, stored>>
    /\ UNCHANGED not_storage

\* lines 104-113: the file is closed and the StoredFile returned
ReturnStored(c) ==
    /\ save_pc[c] = "written"
    /\ stored' = [stored EXCEPT ![c] =
           StoredFile(NormalizedUser, NormalizedJob, save_target[c],
                      FilePath(NormalizedUser, NormalizedJob, save_target[c]),
                      Len(Stream(c)))]
    /\ save_pc' = [save_pc EXCEPT ![c] = "returned"]
    /\ UNCHANGED <<user_id, job_id, filename, files, job_dirs, save_target>>
    /\ UNCHANGED not_storage

StorageNext ==
    \E c \in Calls :
        \/ EnsureJobDir(c)
        \/ UniqueFilename(c)
        \/ OpenTarget(c)
        \/ WriteChunk(c)
        \/ ReturnStored(c)

\* StorageInit alone: the other components stay as they are built
InitStorage ==
    /\ StorageInit
    /\ JwtIdle
    /\ ToolIdle
    /\ LimiterIdle
    /\ HistoryIdle
    /\ SessionIdle

SpecStorage == InitStorage /\ [][StorageNext]_vars

\* a path component that names an entry of its directory: not empty, no
\* separator, neither "." nor ".."
IsEntryName(name) ==
    /\ name \notin {<<>>, <<".">>, <<".", ".">>}
    /\ \A i \in DOMAIN name : name[i] # "/"

\* C21: every StoredFile returned by save_upload has a path directly inside
\* users/<stored.user_id>/jobs/<stored.job_id>: the three components are
\* entry names without separator, and the stored file name does not start
\* with a dot, whatever user_id, job_id and filename are.
C21_Confined ==
    \A c \in Calls :
        save_pc[c] = "returned" =>
            /\ stored[c].path =
                   FilePath(stored[c].user_id, stored[c].job_id, stored[c].filename)
            /\ IsEntryName(stored[c].user_id)
            /\ IsEntryName(stored[c].job_id)
            /\ IsEntryName(stored[c].filename)
            /\ stored[c].user_id[1] # "."
            /\ stored[c].job_id[1] # "."
            /\ stored[c].filename[1] # "."
            /\ Exists(stored[c].path)
            /\ <<stored[c].user_id, stored[c].job_id>> \in job_dirs

C21_Witness ==
    /\ filename = <<".", ".", "/">>
    /\ save_pc[1] = "returned"
    /\ stored[1].filename = <<"f", "i", "l", "e">>

\* C30: concurrent save_upload calls with the same user, job and file name
\* return distinct paths, and the file of each call holds the bytes of its
\* own stream.
C30_NoOverwrite ==
    \A c \in Calls :
        save_pc[c] = "returned" =>
            /\ files[stored[c].path] = Stream(c)
            /\ \A d \in Calls \ {c} :
                   save_pc[d] = "returned" => stored[d].path # stored[c].path

----------------------------------------------------------------------------
(* src/bot/routers/tools/base.py: ToolExecutionHelper.execute *)

\* A validator or executor is a callable given by the caller: it returns a
\* value or an awaitable, and the call or the awaitable returns or raises.
Validators ==
    [awaitable : BOOLEAN,
     result : {"returns", "ToolValidationError", "ValueError", "TypeError"}]
Executors ==
    [awaitable : BOOLEAN,
     result : {"returns", "ToolValidationError", "RuntimeError"}]
\* the states of ToolStates (lines 19-24), and "none" for no state
FsmStates == {"none", "idle", "awaiting_input", "processing"}

ToolInit ==
    /\ fsm_state \in FsmStates \ {"processing"}
    /\ validator \in Validators
    /\ executor \in Executors
    /\ tool_pc = "called"
    /\ tool_outcome = [ok |-> FALSE, exc |-> "-", msg |-> "pending"]

\* _run_validator (lines 123-134): a ValueError that is not a
\* ToolValidationError is raised again as ToolValidationError
_run_validator(v) ==
    IF v.result = "returns" THEN Ok(None)
    ELSE IF v.result \in {"ToolValidationError", "ValueError"}
    THEN Raise("ToolValidationError", "")
    ELSE Raise(v.result, "")

\* _run_executor (lines 147-156)
_run_executor(e) ==
    IF e.result = "returns" THEN Ok(None) ELSE Raise(e.result, "")

\* line 103: the rate limiter lets the call pass or raises
RateLimitCheck ==
    /\ tool_pc = "called"
    /\ \/ tool_pc' = "checked" /\ UNCHANGED tool_outcome
       \/ /\ tool_pc' = "raised"
          /\ tool_outcome' = Raise("RateLimitExceeded", "")
    /\ UNCHANGED <<fsm_state, validator, executor>>
    /\ UNCHANGED not_tool

\* line 104
SetProcessing ==
    /\ tool_pc = "checked"
    /\ fsm_state' = "processing"
    /\ tool_pc' = "validating"
    /\ UNCHANGED <<validator, executor, tool_outcome>>
    /\ UNCHANGED not_tool

\* the exceptions of the validator that line 108 catches
CaughtAtValidation(r) == ~r.ok /\ r.exc = "ToolValidationError"

\* lines 106-110
RunValidator ==
    /\ tool_pc = "validating"
    /\ LET r == _run_validator(validator)
       IN  IF r.ok
           THEN tool_pc' = "validated" /\ UNCHANGED <<fsm_state, tool_outcome>>
           ELSE /\ fsm_state' = IF CaughtAtValidation(r) THEN "awaiting_input" ELSE fsm_state
                /\ tool_pc' = "raised"
                /\ tool_outcome' = r
    /\ UNCHANGED <<validator, executor>>
    /\ UNCHANGED not_tool

\* lines 112-113: job_path.mkdir(parents=True, exist_ok=True) succeeds or
\* raises OSError
EnsureDirectory ==
    /\ tool_pc = "validated"
    /\ \/ tool_pc' = "ready" /\ UNCHANGED tool_outcome
       \/ /\ tool_pc' = "raised"
          /\ tool_outcome' = Raise("OSError", "")
    /\ UNCHANGED <<fsm_state, validator, executor>>
    /\ UNCHANGED not_tool

\* the state after the finally clause of line 118
AfterExecutor == "none"

\* lines 115-118: the executor runs and the state is cleared
RunExecutor ==
    /\ tool_pc = "ready"
    /\ LET r == _run_executor(executor)
       IN  /\ fsm_state' = AfterExecutor
           /\ IF r.ok
              THEN tool_pc' = "executed" /\ UNCHANGED tool_outcome
              ELSE tool_pc' = "raised" /\ tool_outcome' = r
    /\ UNCHANGED <<validator, executor>>
    /\ UNCHANGED not_tool

\* lines 120-121
BuildResponse ==
    /\ tool_pc = "executed"
    /\ tool_pc' = "returned"
    /\ tool_outcome' = Ok(None)
    /\ UNCHANGED <<fsm_state, validator, executor>>
    /\ UNCHANGED not_tool

ToolNext ==
    \/ RateLimitCheck
    \/ SetProcessing
    \/ RunValidator
    \/ EnsureDirectory
    \/ RunExecutor
    \/ BuildResponse

\* ToolInit alone: the other components stay as they are built
InitTool ==
    /\ ToolInit
    /\ JwtIdle
    /\ StorageIdle
    /\ LimiterIdle
    /\ HistoryIdle
    /\ SessionIdle

SpecTool == InitTool /\ [][ToolNext]_vars

ToolTerminated == tool_pc \in {"raised", "returned"}

\* C22: once execute has terminated the state is not processing, however
\* the validator, the creation of the directory or the executor failed:
\* it is cleared after the executor ran and awaiting_input after the
\* validator rejected the input.
C22_NeverLeftProcessing ==
    ToolTerminated => fsm_state # "processing"

----------------------------------------------------------------------------
(* src/bot/rate_limit.py: MemoryRateLimiter *)

\* time.monotonic() is a float: a second is TicksPerSecond ticks
TicksPerSecond == 2

RateLimitStatus(allowed, remaining, retry_after, lim) ==
    [allowed |-> allowed, remaining |-> remaining, retry_after |-> retry_after,
     limit |-> lim]

\* lines 58-59: the timestamps not older than the threshold
RECURSIVE DropExpired(_, _)
DropExpired(bucket, threshold) ==
    IF bucket # <<>> /\ bucket[1] <= threshold
    THEN DropExpired(Tail(bucket), threshold)
    ELSE bucket

\* line 60
BucketFull_over(bucket, lim) == Len(bucket) > lim
BucketFull(bucket, lim) == Len(bucket) >= lim

\* math.ceil of ticks / TicksPerSecond, for ticks >= 0
CeilSeconds(ticks) == (ticks + TicksPerSecond - 1) \div TicksPerSecond

\* line 61: max(math.ceil(window - (now - bucket[0])), 1)
RetryAfter_floor(win, now, oldest) ==
    LET r == (win * TicksPerSecond - (now - oldest)) \div TicksPerSecond
    IN  IF r > 1 THEN r ELSE 1
RetryAfter(win, now, oldest) ==
    LET r == CeilSeconds(win * TicksPerSecond - (now - oldest))
    IN  IF r > 1 THEN r ELSE 1

\* lines 53-79: the bucket and the status after hit(key, limit, window) at now
hit(bucket0, lim, win, now) ==
    LET threshold == now - win * TicksPerSecond
        bucket == DropExpired(bucket0, threshold)
    IN  IF BucketFull(bucket, lim)
        THEN [bucket |-> bucket,
              status |-> RateLimitStatus(FALSE, 0, RetryAfter(win, now, bucket[1]), lim)]
        ELSE LET appended == Append(bucket, now)
                 remaining == IF lim - Len(appended) > 0 THEN lim - Len(appended) ELSE 0
             IN  [bucket |-> appended,
                  status |-> RateLimitStatus(TRUE, remaining, 0, lim)]

LimiterInit ==
    /\ clock = 0
    /\ limit \in 1..MaxLimit
    /\ window \in 1..MaxWindow
    /\ _hits = [k \in LimiterKeys |-> <<>>]
    /\ allowed_log = [k \in LimiterKeys |-> <<>>]
    /\ status = NoStatus
    /\ retry_due = [k \in LimiterKeys |-> NoDue]
    /\ last_hit = NoHit

\* time passes
Tick ==
    /\ clock < MaxTime
    /\ clock' = clock + 1
    /\ UNCHANGED <<limit, window, _hits, allowed_log, status, retry_due, last_hit>>
    /\ UNCHANGED not_limiter

\* the tick from which a retry is promised to key k after a hit: none after
\* an allowed hit, else the earliest over the denials since then
DueAfter(k, result) ==
    LET new == clock + result.status.retry_after * TicksPerSecond
    IN  IF result.status.allowed THEN NoDue
        ELSE IF retry_due[k] # NoDue /\ retry_due[k] < new THEN retry_due[k] ELSE new

\* one call hit(k, limit, window); it runs without yielding, the lock of
\* line 56 is always free
Hit(k) ==
    /\ LET result == hit(_hits[k], limit, window, clock)
       IN  /\ _hits' = [_hits EXCEPT ![k] = result.bucket]
           /\ status' = result.status
           /\ allowed_log' = [allowed_log EXCEPT ![k] =
                  IF result.status.allowed THEN Append(@, clock) ELSE @]
           /\ retry_due' = [retry_due EXCEPT ![k] = DueAfter(k, result)]
    /\ last_hit' = [key |-> k, at |-> clock, due |-> retry_due[k]]
    /\ UNCHANGED <<clock, limit, window>>
    /\ UNCHANGED not_limiter

LimiterNext == Tick \/ \E k \in LimiterKeys : Hit(k)

\* LimiterInit alone: the other components stay as they are built
InitLimiter ==
    /\ LimiterInit
    /\ JwtIdle
    /\ StorageIdle
    /\ ToolIdle
    /\ HistoryIdle
    /\ SessionIdle

SpecLimiter == InitLimiter /\ [][LimiterNext]_vars

\* the allowed hits of key k in the window that ends at tick t
AllowedIn(k, t) ==
    {i \in DOMAIN allowed_log[k] :
        t - window * TicksPerSecond < allowed_log[k][i] /\ allowed_log[k][i] <= t}
\* bucket is the end of log
IsSuffix(bucket, log) ==
    /\ Len(bucket) <= Len(log)
    /\ bucket = SubSeq(log, Len(log) - Len(bucket) + 1, Len(log))

C27_RetryAfterSuffices ==
    last_hit # NoHit =>
        /\ ~status.allowed => status.retry_after >= 1
        /\ last_hit.due # NoDue /\ last_hit.at >= last_hit.due => status.allowed

C27_Witness ==
    /\ last_hit.due # NoDue /\ last_hit.at = last_hit.due
    /\ limit = 2 /\ status.allowed

----------------------------------------------------------------------------
(* src/bot/services/history.py: RecentHistoryStorage, for one user *)

Descriptions == {"d1", "d2", "d3"}

\* list.remove(d): the first occurrence goes
RECURSIVE RemoveFirst(_, _)
RemoveFirst(list, d) ==
    IF list = <<>> THEN <<>>
    ELSE IF Head(list) = d THEN Tail(list)
    ELSE <<Head(list)>> \o RemoveFirst(Tail(list), d)
\* LREM key 0 d: every occurrence goes
Lrem(list, d) == SelectSeq(list, LAMBDA item : item # d)
\* list[:n], LTRIM key 0 n-1 and LRANGE key 0 n-1, for n >= 1
FirstItems(list, n) == SubSeq(list, 1, IF Len(list) < n THEN Len(list) ELSE n)

\* lines 61-64
WithTask(list, d) ==
    LET removed == IF \E i \in DOMAIN list : list[i] = d THEN RemoveFirst(list, d) ELSE list
    IN  FirstItems(<<d>> \o removed, MaxItems)

HistoryInit ==
    /\ _redis_client \in {"None", "client"}
    /\ history_store = <<>>
    /\ _locks = 0
    /\ add_pc = [c \in Calls |-> "idle"]
    /\ description = [c \in Calls |-> "-"]
    /\ history = [c \in Calls |-> <<>>]
    /\ completed = <<>>

\* the add_task calls begun so far
Begun == Len(completed) + Cardinality({c \in Calls : add_pc[c] # "idle"})

\* add_task(user, d) is called
CallAddTask(c, d) ==
    /\ add_pc[c] = "idle"
    /\ Begun < MaxAdds
    /\ description' = [description EXCEPT ![c] = d]
    /\ add_pc' = [add_pc EXCEPT ![c] = "called"]
    /\ UNCHANGED <<_redis_client, history_store, _locks, history, completed>>
    /\ UNCHANGED not_history

\* line 54: LREM
RedisLrem(c) ==
    /\ add_pc[c] = "called" /\ _redis_client = "client"
    /\ history_store' = Lrem(history_store, description[c])
    /\ add_pc' = [add_pc EXCEPT ![c] = "removed"]
    /\ UNCHANGED <<_redis_client, _locks, description, history, completed>>
    /\ UNCHANGED not_history

\* line 55: LPUSH
RedisLpush(c) ==
    /\ add_pc[c] = "removed"
    /\ history_store' = <<description[c]>> \o history_store
    /\ add_pc' = [add_pc EXCEPT ![c] = "pushed"]
    /\ UNCHANGED <<_redis_client, _locks, description, history, completed>>
    /\ UNCHANGED not_history

\* lines 56-57: LTRIM, and the call returns
RedisLtrim(c) ==
    /\ add_pc[c] = "pushed"
    /\ history_store' = FirstItems(history_store, MaxItems)
    /\ add_pc' = [add_pc EXCEPT ![c] = "idle"]
    /\ completed' = Append(completed, description[c])
    /\ UNCHANGED <<_redis_client, _locks, description, history>>
    /\ UNCHANGED not_history

\* line 59: the lock of the user is taken when it is free
AcquireLock(c) ==
    /\ add_pc[c] = "called" /\ _redis_client = "None"
    /\ _locks = 0
    /\ _locks' = c
    /\ add_pc' = [add_pc EXCEPT ![c] = "locked"]
    /\ UNCHANGED <<_redis_client, history_store, description, history, completed>>
    /\ UNCHANGED not_history

\* line 60: the file is read in a worker thread
ReadFile(c) ==
    /\ add_pc[c] = "locked"
    /\ history' = [history EXCEPT ![c] = history_store]
    /\ add_pc' = [add_pc EXCEPT ![c] = "read"]
    /\ UNCHANGED <<_redis_client, history_store, _locks, description, completed>>
    /\ UNCHANGED not_history

\* lines 61-65: the list is changed and written, the lock released
WriteFile(c) ==
    /\ add_pc[c] = "read"
    /\ history_store' = WithTask(history[c], description[c])
    /\ history' = [history EXCEPT ![c] = WithTask(history[c], description[c])]
    /\ _locks' = 0
    /\ add_pc' = [add_pc EXCEPT ![c] = "idle"]
    /\ completed' = Append(completed, description[c])
    /\ UNCHANGED <<_redis_client, description>>
    /\ UNCHANGED not_history

\* lines 67-75: what get_tasks returns now
get_tasks ==
    IF _redis_client = "client" THEN FirstItems(history_store, MaxItems)
    ELSE history_store

HistoryNext ==
    \E c \in Calls :
        \/ \E d \in Descriptions : CallAddTask(c, d)
        \/ RedisLrem(c)
        \/ RedisLpush(c)
        \/ RedisLtrim(c)
        \/ AcquireLock(c)
        \/ ReadFile(c)
        \/ WriteFile(c)

\* HistoryInit alone: the other components stay as they are built
InitHistory ==
    /\ HistoryInit
    /\ JwtIdle
    /\ StorageIdle
    /\ ToolIdle
    /\ LimiterIdle
    /\ SessionIdle

SpecHistory == InitHistory /\ [][HistoryNext]_vars

\* no add_task call is running
HistoryQuiet == \A c \in Calls : add_pc[c] = "idle"
Added == {completed[i] : i \in DOMAIN completed}

\* C28: when the add_task calls of a user have returned, in whatever way
\* they interleaved and on either backend, get_tasks returns at most
\* max_items entries, none twice, the description added last first, and
\* every description added while they are no more than max_items.
C28_BoundedNoDuplicates ==
    HistoryQuiet =>
        /\ Len(get_tasks) <= MaxItems
        /\ \A i, j \in DOMAIN get_tasks : get_tasks[i] = get_tasks[j] => i = j
        /\ completed # <<>> => get_tasks[1] = completed[Len(completed)]
        /\ Cardinality(Added) <= MaxItems =>
               Added = {get_tasks[i] : i \in DOMAIN get_tasks}

----------------------------------------------------------------------------
(* src/bot/middlewares.py: SessionData and SessionMiddleware, for one event.
   The values a handler stores are JSON values, and the storage accepts
   the write. *)

SessionInit ==
    /\ has_user \in BOOLEAN
    /\ session_store \in Payloads
    /\ _data = EmptyPayload
    /\ _dirty = FALSE
    /\ mw_pc = "start"
    /\ modified = FALSE
    /\ writes = 0
    /\ raised = FALSE
    /\ ops = 0

\* lines 139-141: no user, the handler runs without a session
CallWithoutUser ==
    /\ mw_pc = "start" /\ ~has_user
    /\ mw_pc' = "finished"
    /\ raised' \in BOOLEAN
    /\ UNCHANGED <<has_user, session_store, _data, _dirty, modified, writes, ops>>
    /\ UNCHANGED not_session

\* lines 142-145: the payload is read and the session built
ReadSession ==
    /\ mw_pc = "start" /\ has_user
    /\ _data' = session_store
    /\ _dirty' = FALSE
    /\ mw_pc' = "handler"
    /\ UNCHANGED <<has_user, session_store, modified, writes, raised, ops>>
    /\ UNCHANGED not_session

\* lines 92-94: session[k] = v
SetItem(k, v) ==
    /\ mw_pc = "handler" /\ ops < MaxOps
    /\ _data' = [_data EXCEPT ![k] = v]
    /\ _dirty' = TRUE
    /\ modified' = TRUE
    /\ ops' = ops + 1
    /\ UNCHANGED <<has_user, session_store, mw_pc, writes, raised>>
    /\ UNCHANGED not_session

\* lines 96-98: del session[k]; a KeyError when k is not there ends the handler
DelItem(k) ==
    /\ mw_pc = "handler" /\ ops < MaxOps
    /\ ops' = ops + 1
    /\ IF _data[k] = NoItem
       THEN /\ raised' = TRUE
            /\ mw_pc' = "finally"
            /\ UNCHANGED <<_data, _dirty, modified>>
       ELSE /\ _data' = [_data EXCEPT ![k] = NoItem]
            /\ _dirty' = TRUE
            /\ modified' = TRUE
            /\ UNCHANGED <<raised, mw_pc>>
    /\ UNCHANGED <<has_user, session_store, writes>>
    /\ UNCHANGED not_session

\* lines 106-108: session.clear()
Clear ==
    /\ mw_pc = "handler" /\ ops < MaxOps
    /\ _data' = EmptyPayload
    /\ _dirty' = TRUE
    /\ modified' = TRUE
    /\ ops' = ops + 1
    /\ UNCHANGED <<has_user, session_store, mw_pc, writes, raised>>
    /\ UNCHANGED not_session

\* line 116
NeedsWrite_always(dirty) == TRUE
NeedsWrite(dirty) == dirty

\* lines 115-118: commit, by the handler itself
HandlerCommit ==
    /\ mw_pc = "handler" /\ ops < MaxOps
    /\ ops' = ops + 1
    /\ IF NeedsWrite(_dirty)
       THEN /\ session_store' = _data
            /\ writes' = writes + 1
            /\ _dirty' = FALSE
       ELSE UNCHANGED <<session_store, writes, _dirty>>
    /\ UNCHANGED <<has_user, _data, mw_pc, modified, raised>>
    /\ UNCHANGED not_session

\* line 146: the handler returns or raises
HandlerEnds ==
    /\ mw_pc = "handler"
    /\ raised' \in BOOLEAN
    /\ mw_pc' = "finally"
    /\ UNCHANGED <<has_user, session_store, _data, _dirty, modified, writes, ops>>
    /\ UNCHANGED not_session

\* lines 147-148 and 115-118: the commit of the finally clause
FinallyCommit ==
    /\ mw_pc = "finally"
    /\ IF NeedsWrite(_dirty)
       THEN /\ session_store' = _data
            /\ writes' = writes + 1
            /\ _dirty' = FALSE
       ELSE UNCHANGED <<session_store, writes, _dirty>>
    /\ mw_pc' = "finished"
    /\ UNCHANGED <<has_user, _data, modified, raised, ops>>
    /\ UNCHANGED not_session

SessionNext ==
    \/ CallWithoutUser
    \/ ReadSession
    \/ \E k \in SessionKeys, v \in SessionValues : SetItem(k, v)
    \/ \E k \in SessionKeys : DelItem(k)
    \/ Clear
    \/ HandlerCommit
    \/ HandlerEnds
    \/ FinallyCommit

\* SessionInit alone: the other components stay as they are built
InitSession ==
    /\ SessionInit
    /\ JwtIdle
    /\ StorageIdle
    /\ ToolIdle
    /\ LimiterIdle
    /\ HistoryIdle

SpecSession == InitSession /\ [][SessionNext]_vars

====
